---------------------------- MODULE Spec2Model ----------------------------
(***************************************************************************)
(* Divide-and-conquer Delaunay triangulation and its Voronoi dual          *)
(* (src/main.ts).  Points are records [x, y, w]: the point (x/w, y/w).     *)
(* Every input point has w = 1; only the circumcenters made by centerOf    *)
(* carry another denominator, reduced so that equal points are equal       *)
(* records.  Coordinates are small integers, on which the determinants of  *)
(* the source are exact.  An angle (Math.atan2) is kept as <<rank, dx, dy>>*)
(* with (dx, dy) the reduced direction: equal angles are equal tuples and  *)
(* the order of angles is decided exactly.                                 *)
(***************************************************************************)
EXTENDS Integers, Sequences, FiniteSets, TLC

\* ------------------------------------------------------------ bounds
MaxX == 4
MaxY == 3
MaxPts == 5
MaxRow == 8
MaxPermLen == 4
MaxCalls == 2
MaxRingPts == 3
MaxOps == 3
MaxCoord == 3
MaxLinks == 3

\* ------------------------------------------------------------ state
VARIABLES
    S_cache,   \* the module-level permutation cache of S
    input,     \* the caller's point array (delaunay sorts it in place)
    genpos,    \* whether the input point set is in general position
    phase,     \* "idle" | "delaunay" | "dual" | "rings" | "query"
    calls,     \* number of delaunay calls made so far
    stack,     \* activation records of delaunay, innermost last
    result,    \* what the last delaunay call returned (<<>>: nothing yet)
    prev,      \* what the delaunay call before it returned
    err,       \* the error the last call threw, "" for none
    dstack,    \* activation records of _dual, innermost last
    faces,     \* the faces object all _dual activations share
    dresult,   \* what the last dual call returned
    rings,     \* a Connections object the caller edits with connect/disconnect
    ops,       \* number of such edits
    query,     \* a direct call of a function of the module: its name and arguments
    answer     \* <<v>> once that call has returned v, <<>> before

vars == <<S_cache, input, genpos, phase, calls, stack, result, prev, err,
          dstack, faces, dresult, rings, ops, query, answer>>

\* ------------------------------------------------------------ helpers
Abs(n) == IF n < 0 THEN -n ELSE n

RECURSIVE Gcd(_, _)
Gcd(a, b) == IF b = 0 THEN a ELSE Gcd(b, a % b)

\* a function on 1..n as a tuple
Tuple(f) == <<>> \o f

Range(s) == {s[i] : i \in DOMAIN s}

\* the element of a one-element set.  The({e(v) : v \in {x}}) is e(x) with
\* x worked out once, however often e uses it
The(S) == CHOOSE v \in S : TRUE

\* ------------------------------------------------------------ points
Pt(x, y) == [x |-> x, y |-> y, w |-> 1]

\* null / undefined where the source holds a Point
NullPt == [x |-> 0, y |-> 0, w |-> 0]

\* id: the key `(${p.x},${p.y})`; two points share a key iff they have the
\* same coordinates (number-to-string is injective on the values met here)
id(p) == <<p.x, p.y, p.w>>

\* minus(p, q), up to the positive factor p.w * q.w (atan2 ignores it)
minus(p, q) == [x |-> p.x * q.w - q.x * p.w, y |-> p.y * q.w - q.y * p.w]

norm2(p) == p.x * p.x + p.y * p.y

\* ------------------------------------------------------------ determinant
\* S_cache[n] = <<>> stands for a missing entry; an entry is never empty.
NoCache == [n \in 1..4 |-> <<>>]

\* the list S(n) builds from the list ps = S(n - 1)
SInsert(ps, n) ==
    The({Tuple([k \in 1..(Len(qs) * n) |->
            LET e == qs[((k - 1) \div n) + 1]
                i == (k - 1) % n
            IN  [p    |-> SubSeq(e.p, 1, i) \o <<n>> \o SubSeq(e.p, i + 1, n - 1),
                 sign |-> (IF (n - i + 1) % 2 = 0 THEN 1 ELSE -1) * e.sign]]) :
         qs \in {ps}})

\* S whose cached lists come back with every sign negated
RECURSIVE SNegated(_, _)
SNegated(n, cache) ==
    IF cache[n] # <<>>
    THEN Tuple([k \in DOMAIN cache[n] |-> [cache[n][k] EXCEPT !.sign = -@]])
    ELSE IF n = 1 THEN << [p |-> <<1>>, sign |-> 1] >>
    ELSE SInsert(SNegated(n - 1, cache), n)

RECURSIVE S(_, _)
S(n, cache) ==
    IF cache[n] # <<>> THEN cache[n]
    ELSE IF n = 1 THEN << [p |-> <<1>>, sign |-> 1] >>
    ELSE SInsert(S(n - 1, cache), n)

\* S_cache after a call S(n)
RECURSIVE SCacheAfter(_, _)
SCacheAfter(n, cache) ==
    IF cache[n] # <<>> \/ n = 1 THEN cache
    ELSE The({[c1 EXCEPT ![n] = SInsert(S(n - 1, c1), n)] :
                 c1 \in {SCacheAfter(n - 1, cache)}})

RECURSIVE Prod(_, _, _)
Prod(M, p, i) == IF i > Len(M) THEN 1 ELSE M[i][p[i]] * Prod(M, p, i + 1)

\* the terms of perms from the k-th on, added up
RECURSIVE detSum(_, _, _)
detSum(M, perms, k) ==
    IF k > Len(perms) THEN 0
    ELSE perms[k].sign * Prod(M, perms[k].p, 1) + detSum(M, perms, k + 1)

detWith(M, cache) == The({detSum(A, perms, 1) : A \in {M}, perms \in {S(Len(M), cache)}})

\* ------------------------------------------------------------ angles
\* Math.atan2(D.y, D.x) in (-pi, pi]: rank 0 is (-pi, 0), rank 1 is 0,
\* rank 2 is (0, pi), rank 3 is pi.  -Math.PI itself is rank -1.
atan2(D) ==
    The({IF d.x = 0 /\ d.y = 0 THEN <<1, 1, 0>>
         ELSE The({<<(IF d.y < 0 THEN 0 ELSE IF d.y > 0 THEN 2 ELSE IF d.x > 0 THEN 1 ELSE 3),
                     d.x \div g, d.y \div g>> : g \in {Gcd(Abs(d.x), Abs(d.y))}}) :
         d \in {D}})

AngleZero == <<1, 1, 0>>
AngleNegPi == <<-1, -1, 0>>

\* a > b on angles
AngleGT(a, b) ==
    \/ a[1] > b[1]
    \/ a[1] = b[1] /\ b[2] * a[3] - b[3] * a[2] > 0

det(M) == detWith(M, S_cache)

\* ------------------------------------------------------------ predicates
\* [a, b].sort((l, r) => l.x - r.x): stable, so a tie keeps a first
sortLine(line) == IF line[2].x < line[1].x THEN <<line[2], line[1]>> ELSE line

belowLine(p, line) ==
    IF p \in Range(line) THEN FALSE
    ELSE LET ab == sortLine(line)
         IN  det(<< <<ab[1].x, ab[1].y, 1>>, <<ab[2].x, ab[2].y, 1>>, <<p.x, p.y, 1>> >>) < 0

aboveLine(p, line) ==
    IF p \in Range(line) THEN FALSE
    ELSE LET ab == sortLine(line)
         IN  det(<< <<ab[1].x, ab[1].y, 1>>, <<ab[2].x, ab[2].y, 1>>, <<p.x, p.y, 1>> >>) > 0

\* inCircle with the sign of the determinant taken the other way
inCircleOutside(p, abc) ==
    IF p \in Range(abc) THEN FALSE
    ELSE det(<< <<abc[1].x, abc[1].y, norm2(abc[1]), 1>>,
                <<abc[2].x, abc[2].y, norm2(abc[2]), 1>>,
                <<abc[3].x, abc[3].y, norm2(abc[3]), 1>>,
                <<p.x, p.y, norm2(p), 1>> >>) < 0

\* inCircle that takes a zero determinant (p on the circle) for inside
inCircleOrOn(p, abc) ==
    IF p \in Range(abc) THEN FALSE
    ELSE det(<< <<abc[1].x, abc[1].y, norm2(abc[1]), 1>>,
                <<abc[2].x, abc[2].y, norm2(abc[2]), 1>>,
                <<abc[3].x, abc[3].y, norm2(abc[3]), 1>>,
                <<p.x, p.y, norm2(p), 1>> >>) >= 0

inCircle(p, abc) ==
    IF p \in Range(abc) THEN FALSE
    ELSE det(<< <<abc[1].x, abc[1].y, norm2(abc[1]), 1>>,
                <<abc[2].x, abc[2].y, norm2(abc[2]), 1>>,
                <<abc[3].x, abc[3].y, norm2(abc[3]), 1>>,
                <<p.x, p.y, norm2(p), 1>> >>) > 0

Sgn(n) == IF n > 0 THEN 1 ELSE IF n < 0 THEN -1 ELSE 0

\* centerOf: (0.5 * Mny / Mxy, -0.5 * Mnx / Mxy) as a reduced fraction pair.
\* Mxy = 0 divides by zero: the coordinates are infinities or NaN, kept as
\* their signs over w = 0.
centerOf(p, q, r) ==
    The({LET s == Sgn(Mxy)
         IN  IF Mxy = 0 THEN [x |-> Sgn(Mny), y |-> -Sgn(Mnx), w |-> 0]
             ELSE The({[x |-> (s * Mny) \div g, y |-> (-(s * Mnx)) \div g,
                        w |-> (s * 2 * Mxy) \div g] :
                       g \in {Gcd(Gcd(Abs(Mny), Abs(Mnx)), Abs(2 * Mxy))}}) :
         Mxy \in {det(<< <<p.x, p.y, 1>>, <<q.x, q.y, 1>>, <<r.x, r.y, 1>> >>)},
         Mny \in {det(<< <<norm2(p), p.y, 1>>, <<norm2(q), q.y, 1>>, <<norm2(r), r.y, 1>> >>)},
         Mnx \in {det(<< <<norm2(p), p.x, 1>>, <<norm2(q), q.x, 1>>, <<norm2(r), r.x, 1>> >>)}})

\* ------------------------------------------------------------ link rings
\* A Ring is [center, links], a Link [point, angle].  A Connections object
\* is the sequence of its rings in key insertion order, the key of a ring
\* being id(ring.center).
NoRing == [center |-> NullPt, links |-> <<>>]

Has(connections, k) == \E i \in DOMAIN connections : id(connections[i].center) = k

Index(connections, k) == CHOOSE i \in DOMAIN connections : id(connections[i].center) = k

Get(connections, k) ==
    IF Has(connections, k) THEN connections[Index(connections, k)] ELSE NoRing

\* connections[k] = ring
Put(connections, k, ring) ==
    IF Has(connections, k)
    THEN LET i == Index(connections, k)
         IN  SubSeq(connections, 1, i - 1) \o <<ring>>
                 \o SubSeq(connections, i + 1, Len(connections))
    ELSE Append(connections, ring)

\* scanStop without the tie rule: the scan stops at a greater angle only,
\* whatever the direction
scanStopStrict(angle, ring, direction) ==
    The({IF stops = {} THEN Len(ring.links) + 1
         ELSE CHOOSE k \in stops : \A m \in stops : k <= m :
         stops \in {{k \in DOMAIN ring.links : AngleGT(ring.links[k].angle, angle)}}})

\* the index at which the scan of nextConnectionFromAngle stops (1-based)
scanStop(angle, ring, direction) ==
    The({IF stops = {} THEN Len(ring.links) + 1
         ELSE CHOOSE k \in stops : \A m \in stops : k <= m :
         stops \in {{k \in DOMAIN ring.links :
                        \/ ring.links[k].angle = angle /\ direction <= 0
                        \/ AngleGT(ring.links[k].angle, angle)}}})

\* nextConnectionFromAngle without the wrap-around of the ring: past the
\* last link, or before the first, there is no neighbour
nextConnectionNoWrap(angle, ring, direction) ==
    The({LET n == Len(ring.links)
         IN  IF n = 0 THEN NullPt
             ELSE IF direction > 0
                  THEN (IF i <= n THEN ring.links[i].point ELSE NullPt)
                  ELSE (IF i - 1 >= 1 THEN ring.links[i - 1].point ELSE NullPt) :
         i \in {scanStop(angle, ring, direction)}})

\* NullPt stands for the TypeError of reading .point of undefined (a ring
\* without links, or no ring at all)
nextConnectionFromAngle(angle, ring, direction) ==
    The({LET n == Len(ring.links)
         IN  IF n = 0 THEN NullPt
             ELSE IF direction > 0
                  THEN (IF i <= n THEN ring.links[i].point ELSE ring.links[1].point)
                  ELSE (IF i - 1 >= 1 THEN ring.links[i - 1].point ELSE ring.links[n].point) :
         i \in {scanStop(angle, ring, direction)}})

\* the Point branch of nextConnection (the number branch is
\* nextConnectionFromAngle itself)
nextConnection(p, ring, direction) ==
    The({nextConnectionFromAngle(angle, r, direction) :
         r \in {ring}, angle \in {atan2(minus(p, ring.center))}})

nextConnectionAbove(p, ring, direction, line) ==
    The({IF q # NullPt /\ aboveLine(q, line) THEN q ELSE NullPt :
         q \in {nextConnection(p, ring, direction)}})

RECURSIVE emptyConnectionsFrom(_, _)
emptyConnectionsFrom(pts, connections) ==
    The({IF ps = <<>> THEN c
         ELSE emptyConnectionsFrom(Tail(ps),
                 Put(c, id(Head(ps)), [center |-> Head(ps), links |-> <<>>])) :
            ps \in {pts}, c \in {connections}})

emptyConnections(pts) == emptyConnectionsFrom(pts, <<>>)

addPoint(p, connections) == Put(connections, id(p), [center |-> p, links |-> <<>>])

\* links.sort((c, d) => c.angle - d.angle): a stable sort
RECURSIVE insertLink(_, _)
insertLink(sorted, l) ==
    The({IF s = <<>> THEN <<m>>
         ELSE IF AngleGT(s[Len(s)].angle, m.angle)
              THEN Append(insertLink(SubSeq(s, 1, Len(s) - 1), m), s[Len(s)])
              ELSE Append(s, m) : s \in {sorted}, m \in {l}})

RECURSIVE sortLinks(_)
sortLinks(links) ==
    The({IF s = <<>> THEN <<>>
         ELSE insertLink(sortLinks(SubSeq(s, 1, Len(s) - 1)), s[Len(s)]) : s \in {links}})

addConnection(p, ring) ==
    [ring EXCEPT !.links =
        sortLinks(Append(@, [point |-> p, angle |-> atan2(minus(p, ring.center))]))]

removeConnection(p, ring) ==
    [ring EXCEPT !.links = SelectSeq(@, LAMBDA c : c.point # p)]

\* connect that records the link in the ring of p only
connectOneWay(p, q, connections) ==
    Put(connections, id(p), addConnection(q, Get(connections, id(p))))

connect(p, q, connections) ==
    The({Put(c1, id(q), addConnection(p, Get(c1, id(q)))) :
            c1 \in {Put(connections, id(p), addConnection(q, Get(connections, id(p))))}})

disconnect(p, q, connections) ==
    The({Put(c1, id(q), removeConnection(p, Get(c1, id(q)))) :
            c1 \in {Put(connections, id(p), removeConnection(q, Get(connections, id(p))))}})

RECURSIVE mergeConnections(_, _)
mergeConnections(c, d) ==
    The({IF d1 = <<>> THEN c1
         ELSE mergeConnections(Put(c1, id(Head(d1).center), Head(d1)), Tail(d1)) :
            c1 \in {c}, d1 \in {d}})

\* ------------------------------------------------------------ inputs
\* twice the signed area of (a, b, c); 0 iff collinear
Orient(a, b, c) == (b.x - a.x) * (c.y - a.y) - (b.y - a.y) * (c.x - a.x)

\* the lifted determinant of (a, b, c, p) about p; 0 iff concyclic
Lifted(a, b, c, p) ==
    LET ax == a.x - p.x  ay == a.y - p.y  az == ax * ax + ay * ay
        bx == b.x - p.x  by == b.y - p.y  bz == bx * bx + by * by
        cx == c.x - p.x  cy == c.y - p.y  cz == cx * cx + cy * cy
    IN  ax * (by * cz - bz * cy) - ay * (bx * cz - bz * cx) + az * (bx * cy - by * cx)

\* p strictly inside the circle through a, b, c (in any order)
StrictlyInside(p, a, b, c) == Lifted(a, b, c, p) * Orient(a, b, c) > 0

GeneralPosition(pts) ==
    LET n == Len(pts)
    IN  /\ \A i, j \in 1..n : i < j => pts[i].x # pts[j].x
        /\ \A i, j, k \in 1..n : i < j /\ j < k => Orient(pts[i], pts[j], pts[k]) # 0
        /\ \A i, j, k, l \in 1..n : i < j /\ j < k /\ k < l =>
               Lifted(pts[i], pts[j], pts[k], pts[l]) # 0

\* the concrete scenarios of the specification (not in general position)
ScenarioTriangle == <<Pt(0, 0), Pt(1, 0), Pt(0, 1)>>
ScenarioSquare == <<Pt(0, 0), Pt(1, 0), Pt(0, 1), Pt(1, 1)>>

Reverse(seq) == Tuple([i \in DOMAIN seq |-> seq[Len(seq) + 1 - i]])
Rotate(seq) == Tuple([i \in DOMAIN seq |-> seq[(i % Len(seq)) + 1]])

\* the orders in which a caller lists the points: every order of a short
\* sequence, the sequence itself, reversed and rotated for a longer one
Orderings(seq) ==
    LET n == Len(seq)
    IN  IF n <= MaxPermLen
        THEN {Tuple([i \in 1..n |-> seq[f[i]]]) :
                 f \in {g \in [1..n -> 1..n] : \A i, j \in 1..n : i # j => g[i] # g[j]}}
        ELSE {seq, Reverse(seq), Rotate(seq)}

\* ------------------------------------------------------------ delaunay
\* pts.sort((p, q) => p.x - q.x): a stable sort
RECURSIVE insertPt(_, _)
insertPt(sorted, p) ==
    The({IF s = <<>> THEN <<q>>
         ELSE IF s[Len(s)].x > q.x
              THEN Append(insertPt(SubSeq(s, 1, Len(s) - 1), q), s[Len(s)])
              ELSE Append(s, q) : s \in {sorted}, q \in {p}})

RECURSIVE sortPts(_)
sortPts(pts) ==
    The({IF s = <<>> THEN <<>>
         ELSE insertPt(sortPts(SubSeq(s, 1, Len(s) - 1)), s[Len(s)]) : s \in {pts}})

NotEnoughPoints == "Not enough points to compute delaunay triangulation"
NoTriangle == "Couldn't find triangle for edge"
TypeError == "TypeError"

\* an activation record of delaunay
Frame(pts) ==
    [pc |-> "entry", pts |-> pts, leftPts |-> <<>>, rightPts |-> <<>>,
     ret |-> <<>>, leftConnections |-> <<>>, connections |-> <<>>,
     left |-> NullPt, right |-> NullPt, nextLeft |-> NullPt, nextRight |-> NullPt,
     leftCandidate |-> NullPt, rightCandidate |-> NullPt, nextCandidate |-> NullPt]

top == stack[Len(stack)]

At(pc) == phase = "delaunay" /\ stack # <<>> /\ top.pc = pc

\* the topmost record becomes f
Step(f) == stack' = [stack EXCEPT ![Len(stack)] = f]

\* whether belowLine / aboveLine of p and line evaluates a determinant
lineDet(p, line) == p \notin Range(line)

\* S_cache after this step evaluated a 3x3 (u3) or a 4x4 (u4) determinant
Touch(u3, u4) ==
    The({IF u4 THEN SCacheAfter(4, c3) ELSE c3 :
            c3 \in {IF u3 THEN SCacheAfter(3, S_cache) ELSE S_cache}})

Session == <<input, genpos, calls, prev>>
DualVars == <<dstack, faces, dresult>>
RingVars == <<rings, ops>>
QueryVars == <<query, answer>>

\* delaunay returns connections to its caller
Return(connections) ==
    IF Len(stack) = 1
    THEN /\ stack' = <<>>
         /\ result' = connections
         /\ phase' = "idle"
    ELSE /\ stack' = [SubSeq(stack, 1, Len(stack) - 1)
                         EXCEPT ![Len(stack) - 1].ret = connections]
         /\ UNCHANGED <<result, phase>>

\* an exception leaves every activation
Throw(e) ==
    /\ err' = e
    /\ stack' = <<>>
    /\ phase' = "idle"
    /\ UNCHANGED result

Others == <<genpos, calls, prev, DualVars, RingVars, QueryVars>>
Running == <<err, result, phase>>

\* lines 292-297 and the dispatch on pts.length
Entry ==
    /\ At("entry")
    /\ IF Len(top.pts) < 2
       THEN Throw(NotEnoughPoints) /\ UNCHANGED input
       ELSE \E sorted \in {sortPts(top.pts)} :
                LET n == Len(sorted)
                    pc == IF n = 2 THEN "base2" ELSE IF n = 3 THEN "base3a" ELSE "split"
                IN  /\ Step([top EXCEPT !.pts = sorted, !.pc = pc])
                    \* the outermost call sorts the caller's own array
                    /\ input' = IF Len(stack) = 1 THEN sorted ELSE input
                    /\ UNCHANGED Running
    /\ UNCHANGED <<S_cache, Others>>

Base2 ==
    /\ At("base2")
    /\ Return(connect(top.pts[1], top.pts[2], emptyConnections(top.pts)))
    /\ UNCHANGED <<S_cache, input, err, Others>>

Base3a ==
    /\ At("base3a")
    /\ Step([top EXCEPT !.connections = connect(top.pts[1], top.pts[2], emptyConnections(top.pts)),
                        !.pc = "base3b"])
    /\ UNCHANGED <<S_cache, input, Running, Others>>

Base3b ==
    /\ At("base3b")
    /\ Step([top EXCEPT !.connections = connect(top.pts[2], top.pts[3], @), !.pc = "base3c"])
    /\ UNCHANGED <<S_cache, input, Running, Others>>

\* the third base case without its closing edge
Base3cOpen ==
    /\ At("base3c")
    /\ Return(top.connections)
    /\ UNCHANGED <<S_cache, input, err, Others>>

Base3c ==
    /\ At("base3c")
    /\ Return(connect(top.pts[3], top.pts[1], top.connections))
    /\ UNCHANGED <<S_cache, input, err, Others>>

\* Split with the middle rounded the other way: mid = floor((length - 1) / 2)
SplitLow ==
    /\ At("split")
    /\ LET mid == (Len(top.pts) - 1) \div 2
           leftPts == SubSeq(top.pts, 1, mid)
           rightPts == SubSeq(top.pts, mid + 1, Len(top.pts))
       IN  stack' = Append([stack EXCEPT ![Len(stack)] =
                               [top EXCEPT !.leftPts = leftPts, !.rightPts = rightPts,
                                           !.pc = "leftDone"]],
                           Frame(leftPts))
    /\ UNCHANGED <<S_cache, input, Running, Others>>

\* the split and the call delaunay(leftPts)
Split ==
    /\ At("split")
    /\ LET mid == Len(top.pts) \div 2
           leftPts == SubSeq(top.pts, 1, mid)
           rightPts == SubSeq(top.pts, mid + 1, Len(top.pts))
       IN  stack' = Append([stack EXCEPT ![Len(stack)] =
                               [top EXCEPT !.leftPts = leftPts, !.rightPts = rightPts,
                                           !.pc = "leftDone"]],
                           Frame(leftPts))
    /\ UNCHANGED <<S_cache, input, Running, Others>>

\* leftConnections is returned; the call delaunay(rightPts)
LeftDone ==
    /\ At("leftDone")
    /\ stack' = Append([stack EXCEPT ![Len(stack)] =
                            [top EXCEPT !.leftConnections = top.ret, !.ret = <<>>,
                                        !.pc = "rightDone"]],
                        Frame(top.rightPts))
    /\ UNCHANGED <<S_cache, input, Running, Others>>

\* rightConnections is returned; mergeConnections and the start of the
\* lower tangent search
RightDone ==
    /\ At("rightDone")
    /\ \E connections \in {mergeConnections(top.leftConnections, top.ret)},
          left \in {top.leftPts[Len(top.leftPts)]}, right \in {top.rightPts[1]} :
       \E nextLeft \in {nextConnectionFromAngle(AngleZero, Get(connections, id(left)), -1)},
          nextRight \in {nextConnectionFromAngle(AngleNegPi, Get(connections, id(right)), 1)} :
           IF nextLeft = NullPt \/ nextRight = NullPt
           THEN Throw(TypeError)
           ELSE /\ Step([top EXCEPT !.connections = connections, !.leftConnections = <<>>,
                                    !.ret = <<>>, !.left = left, !.right = right,
                                    !.nextLeft = nextLeft, !.nextRight = nextRight,
                                    !.pc = "tangent"])
                /\ UNCHANGED Running
    /\ UNCHANGED <<S_cache, input, Others>>

\* the tangent loop left out: the base edge joins the last point of the left
\* half to the first point of the right half
TangentSkipped ==
    /\ At("tangent")
    /\ Step([top EXCEPT !.pc = "base"])
    /\ UNCHANGED <<S_cache, input, Running, Others>>

\* the tangent loop testing nextLeft only: right never moves
TangentLeftOnly ==
    /\ At("tangent")
    /\ \E f \in {top} : \E line \in {<<f.left, f.right>>} :
       \E bl \in {belowLine(f.nextLeft, line)},
          nl \in {nextConnection(f.left, Get(f.connections, id(f.nextLeft)), -1)} :
           /\ IF bl
              THEN IF nl = NullPt THEN Throw(TypeError)
                   ELSE Step([f EXCEPT !.left = f.nextLeft, !.nextLeft = nl]) /\ UNCHANGED Running
              ELSE Step([f EXCEPT !.pc = "base"]) /\ UNCHANGED Running
           /\ S_cache' = Touch(lineDet(f.nextLeft, line), FALSE)
    /\ UNCHANGED <<input, Others>>

\* one test of the lower tangent loop, and its body
Tangent ==
    /\ At("tangent")
    /\ \E f \in {top} : \E line \in {<<f.left, f.right>>} :
       \E bl \in {belowLine(f.nextLeft, line)}, br \in {belowLine(f.nextRight, line)},
          nl \in {nextConnection(f.left, Get(f.connections, id(f.nextLeft)), -1)},
          nr \in {nextConnection(f.right, Get(f.connections, id(f.nextRight)), 1)} :
           /\ IF bl
              THEN IF nl = NullPt THEN Throw(TypeError)
                   ELSE Step([f EXCEPT !.left = f.nextLeft, !.nextLeft = nl]) /\ UNCHANGED Running
              ELSE IF br
              THEN IF nr = NullPt THEN Throw(TypeError)
                   ELSE Step([f EXCEPT !.right = f.nextRight, !.nextRight = nr]) /\ UNCHANGED Running
              ELSE Step([f EXCEPT !.pc = "base"]) /\ UNCHANGED Running
           /\ S_cache' = Touch(lineDet(f.nextLeft, line) \/ (~bl /\ lineDet(f.nextRight, line)), FALSE)
    /\ UNCHANGED <<input, Others>>

\* connect(left, right, connections) after the tangent loop
BaseEdge ==
    /\ At("base")
    /\ Step([top EXCEPT !.connections = connect(top.left, top.right, @),
                        !.nextLeft = NullPt, !.nextRight = NullPt, !.pc = "mergeTop"])
    /\ UNCHANGED <<S_cache, input, Running, Others>>

\* the head of a merge iteration: leftCandidate and its nextCandidate
MergeTop ==
    /\ At("mergeTop")
    /\ \E f \in {top} :
       \E line \in {<<f.left, f.right>>}, ring \in {Get(f.connections, id(f.left))} :
       \E q \in {nextConnection(f.right, ring, 1)},
          leftCandidate \in {nextConnectionAbove(f.right, ring, 1, line)} :
       \E q2 \in {nextConnection(leftCandidate, ring, 1)},
          nextCandidate \in {IF leftCandidate # NullPt
                             THEN nextConnectionAbove(leftCandidate, ring, 1, line)
                             ELSE NullPt} :
           /\ IF q = NullPt THEN Throw(TypeError)
              ELSE /\ Step([f EXCEPT !.leftCandidate = leftCandidate,
                                     !.nextCandidate = nextCandidate,
                                     !.pc = IF leftCandidate # NullPt THEN "leftWhile"
                                                                      ELSE "rightInit"])
                   /\ UNCHANGED Running
           /\ S_cache' = Touch(q # NullPt /\ (lineDet(q, line) \/
                                  (leftCandidate # NullPt /\ lineDet(q2, line))), FALSE)
    /\ UNCHANGED <<input, Others>>

\* one test of the loop that drops edges of left, and its body
LeftWhile ==
    /\ At("leftWhile")
    /\ \E f \in {top} :
       \E line \in {<<f.left, f.right>>},
          drop \in {f.nextCandidate # NullPt
                    /\ inCircle(f.nextCandidate, <<f.left, f.right, f.leftCandidate>>)},
          connections \in {disconnect(f.left, f.leftCandidate, f.connections)} :
       \E ring \in {Get(connections, id(f.left))} :
       \E q \in {nextConnection(f.nextCandidate, ring, 1)} :
           /\ IF drop
              THEN IF q = NullPt THEN Throw(TypeError)
                   ELSE /\ Step([f EXCEPT !.connections = connections,
                                          !.leftCandidate = f.nextCandidate,
                                          !.nextCandidate =
                                              nextConnectionAbove(f.nextCandidate, ring, 1, line)])
                        /\ UNCHANGED Running
              ELSE Step([f EXCEPT !.nextCandidate = NullPt, !.pc = "rightInit"])
                   /\ UNCHANGED Running
           /\ S_cache' = Touch(drop /\ q # NullPt /\ lineDet(q, line),
                               f.nextCandidate # NullPt
                               /\ f.nextCandidate \notin {f.left, f.right, f.leftCandidate})
    /\ UNCHANGED <<input, Others>>

\* rightCandidate and its nextCandidate
RightInit ==
    /\ At("rightInit")
    /\ \E f \in {top} :
       \E line \in {<<f.left, f.right>>}, ring \in {Get(f.connections, id(f.right))} :
       \E q \in {nextConnection(f.left, ring, -1)},
          rightCandidate \in {nextConnectionAbove(f.left, ring, -1, line)} :
       \E q2 \in {nextConnection(rightCandidate, ring, -1)},
          nextCandidate \in {IF rightCandidate # NullPt
                             THEN nextConnectionAbove(rightCandidate, ring, -1, line)
                             ELSE NullPt} :
           /\ IF q = NullPt THEN Throw(TypeError)
              ELSE /\ Step([f EXCEPT !.rightCandidate = rightCandidate,
                                     !.nextCandidate = nextCandidate,
                                     !.pc = IF rightCandidate # NullPt THEN "rightWhile"
                                                                       ELSE "choose"])
                   /\ UNCHANGED Running
           /\ S_cache' = Touch(q # NullPt /\ (lineDet(q, line) \/
                                  (rightCandidate # NullPt /\ lineDet(q2, line))), FALSE)
    /\ UNCHANGED <<input, Others>>

\* one test of the loop that drops edges of right, and its body
RightWhile ==
    /\ At("rightWhile")
    /\ \E f \in {top} :
       \E line \in {<<f.left, f.right>>},
          drop \in {f.nextCandidate # NullPt
                    /\ inCircle(f.nextCandidate, <<f.left, f.right, f.rightCandidate>>)},
          connections \in {disconnect(f.right, f.rightCandidate, f.connections)} :
       \E ring \in {Get(connections, id(f.right))} :
       \E q \in {nextConnection(f.nextCandidate, ring, -1)} :
           /\ IF drop
              THEN IF q = NullPt THEN Throw(TypeError)
                   ELSE /\ Step([f EXCEPT !.connections = connections,
                                          !.rightCandidate = f.nextCandidate,
                                          !.nextCandidate =
                                              nextConnectionAbove(f.nextCandidate, ring, -1, line)])
                        /\ UNCHANGED Running
              ELSE Step([f EXCEPT !.nextCandidate = NullPt, !.pc = "choose"])
                   /\ UNCHANGED Running
           /\ S_cache' = Touch(drop /\ q # NullPt /\ lineDet(q, line),
                               f.nextCandidate # NullPt
                               /\ f.nextCandidate \notin {f.left, f.right, f.rightCandidate})
    /\ UNCHANGED <<input, Others>>

\* Choose that does not move left and right to the candidate it picked: the
\* edge it connects is the base edge again
ChooseStale ==
    /\ At("choose")
    /\ \E f \in {top} :
       \E both \in {f.leftCandidate # NullPt /\ f.rightCandidate # NullPt} :
           /\ IF f.leftCandidate = NullPt /\ f.rightCandidate = NullPt
              THEN Return(f.connections) /\ UNCHANGED err
              ELSE /\ Step([f EXCEPT !.connections = connect(f.left, f.right, @),
                                     !.leftCandidate = NullPt, !.rightCandidate = NullPt,
                                     !.pc = "mergeTop"])
                   /\ UNCHANGED Running
           /\ S_cache' = Touch(FALSE, both /\ f.rightCandidate \notin
                                                  {f.leftCandidate, f.left, f.right})
    /\ UNCHANGED <<input, Others>>

\* the end of a merge iteration: break, or pick a candidate and connect it
Choose ==
    /\ At("choose")
    /\ \E f \in {top} :
       \E both \in {f.leftCandidate # NullPt /\ f.rightCandidate # NullPt},
          inC \in {inCircle(f.rightCandidate, <<f.leftCandidate, f.left, f.right>>)} :
       \E leftCandidate \in {IF both /\ inC THEN NullPt ELSE f.leftCandidate},
          rightCandidate \in {IF both /\ ~inC THEN NullPt ELSE f.rightCandidate} :
       \E left \in {IF leftCandidate # NullPt THEN leftCandidate ELSE f.left},
          right \in {IF rightCandidate # NullPt THEN rightCandidate ELSE f.right} :
           /\ IF f.leftCandidate = NullPt /\ f.rightCandidate = NullPt
              THEN Return(f.connections) /\ UNCHANGED err
              ELSE /\ Step([f EXCEPT !.left = left, !.right = right,
                                     !.connections = connect(left, right, @),
                                     !.leftCandidate = NullPt, !.rightCandidate = NullPt,
                                     !.pc = "mergeTop"])
                   /\ UNCHANGED Running
           /\ S_cache' = Touch(FALSE, both /\ f.rightCandidate \notin
                                                  {f.leftCandidate, f.left, f.right})
    /\ UNCHANGED <<input, Others>>

\* ------------------------------------------------------------ dual
\* rightTriangle without the comparison of the two neighbours
rightTriangleAny(connections, p, q) ==
    The({IF r = NullPt \/ t = NullPt THEN <<NullPt>>
         ELSE <<q, p, r>> :
         r \in {nextConnection(p, Get(connections, id(q)), 1)},
         t \in {nextConnection(q, Get(connections, id(p)), -1)}})

\* <<>> is null.  The lookups of rightTriangle read a ring of the map; on a
\* ring without links they throw, which <<NullPt>> stands for.
rightTriangle(connections, p, q) ==
    The({IF r = NullPt \/ t = NullPt THEN <<NullPt>>
         ELSE IF r # t THEN <<>>
         ELSE <<q, p, r>> :
         r \in {nextConnection(p, Get(connections, id(q)), 1)},
         t \in {nextConnection(q, Get(connections, id(p)), -1)}})

\* [T, err]: the triangle returned, or the error thrown
randomTriangle(connections) ==
    IF connections = <<>> \/ connections[1].links = <<>>
    THEN [T |-> <<>>, err |-> TypeError]
    ELSE LET p == connections[1].center
             q == connections[1].links[1].point
         IN  The({IF T1 = <<NullPt>> THEN [T |-> <<>>, err |-> TypeError]
                  ELSE IF T1 # <<>> THEN [T |-> T1, err |-> ""]
                  ELSE IF T2 = <<NullPt>> THEN [T |-> <<>>, err |-> TypeError]
                  ELSE IF T2 # <<>> THEN [T |-> T2, err |-> ""]
                  ELSE [T |-> <<>>, err |-> NoTriangle] :
                  T1 \in {rightTriangle(connections, p, q)},
                  T2 \in {rightTriangle(connections, q, p)}})

\* an activation record of _dual(connections, T, faces); connections is the
\* map dual was given (result) and faces the one object all of them share
DualFrame(T) ==
    [pc |-> "entry", T |-> T, center |-> NullPt, neighbors |-> <<>>, i |-> 1, c |-> NullPt]

dtop == dstack[Len(dstack)]

DAt(pc) == phase = "dual" /\ dstack # <<>> /\ dtop.pc = pc

DStep(f) == dstack' = [dstack EXCEPT ![Len(dstack)] = f]

\* _dual returns fs
DReturn(fs) ==
    /\ faces' = fs
    /\ dstack' = SubSeq(dstack, 1, Len(dstack) - 1)
    /\ IF Len(dstack) = 1
       THEN dresult' = fs /\ phase' = "idle"
       ELSE UNCHANGED <<dresult, phase>>

DelaunayVars == <<input, genpos, calls, stack, result, prev>>

\* dual(connections) on the map delaunay returned: randomTriangle and the
\* first call of _dual
CallDual ==
    /\ phase = "idle" /\ result # <<>> /\ dresult = <<>> /\ err = ""
    /\ \E seed \in {randomTriangle(result)} :
           IF seed.err # ""
           THEN err' = seed.err /\ UNCHANGED <<phase, dstack, faces>>
           ELSE /\ dstack' = <<DualFrame(seed.T)>>
                /\ faces' = <<>>
                /\ phase' = "dual"
                /\ UNCHANGED err
    /\ UNCHANGED <<S_cache, DelaunayVars, dresult, RingVars, QueryVars>>

\* lines 269-277: the memo test, addPoint and the neighbouring triangles
DualEntry ==
    /\ DAt("entry")
    /\ \E f \in {dtop} : \E a \in {f.T[1]}, b \in {f.T[2]}, c \in {f.T[3]} :
       \E center \in {centerOf(a, b, c)},
          found \in {<< rightTriangle(result, a, b), rightTriangle(result, b, c),
                        rightTriangle(result, c, a) >>} :
           IF Has(faces, id(center))
           THEN DReturn(faces) /\ UNCHANGED err
           ELSE IF \E k \in 1..3 : found[k] = <<NullPt>>
           THEN /\ err' = TypeError
                /\ faces' = addPoint(center, faces)
                /\ dstack' = <<>>
                /\ phase' = "idle"
                /\ UNCHANGED dresult
           ELSE /\ faces' = addPoint(center, faces)
                /\ DStep([f EXCEPT !.center = center,
                                   !.neighbors = SelectSeq(found, LAMBDA T : T # <<>>),
                                   !.pc = "loop"])
                /\ UNCHANGED <<err, dresult, phase>>
    /\ S_cache' = Touch(TRUE, FALSE)
    /\ UNCHANGED <<DelaunayVars, RingVars, QueryVars>>

\* the head of the for loop: centerOf(T) and the call _dual(connections, T, faces)
DualLoop ==
    /\ DAt("loop")
    /\ LET f == dtop
           T == f.neighbors[f.i]
       IN  IF f.i > Len(f.neighbors)
           THEN DReturn(faces) /\ UNCHANGED S_cache
           ELSE /\ dstack' = Append([dstack EXCEPT ![Len(dstack)] =
                                        [f EXCEPT !.c = centerOf(T[1], T[2], T[3]),
                                                  !.pc = "connect"]],
                                    DualFrame(T))
                /\ S_cache' = Touch(TRUE, FALSE)
                /\ UNCHANGED <<faces, dresult, phase>>
    /\ UNCHANGED <<err, DelaunayVars, RingVars, QueryVars>>

\* DualConnect writing the link into the map dual was given as well
DualConnectInPlace ==
    /\ DAt("connect")
    /\ faces' = connect(dtop.center, dtop.c, faces)
    /\ result' = connect(dtop.center, dtop.c, result)
    /\ DStep([dtop EXCEPT !.i = @ + 1, !.c = NullPt, !.pc = "loop"])
    /\ UNCHANGED <<S_cache, err, dresult, phase, input, genpos, calls, stack, prev, RingVars, QueryVars>>

\* faces = connect(center, c, faces) once the call has returned
DualConnect ==
    /\ DAt("connect")
    /\ faces' = connect(dtop.center, dtop.c, faces)
    /\ DStep([dtop EXCEPT !.i = @ + 1, !.c = NullPt, !.pc = "loop"])
    /\ UNCHANGED <<S_cache, err, dresult, phase, DelaunayVars, RingVars, QueryVars>>

\* ------------------------------------------------------------ callers
\* a caller passes the points, in some order, to delaunay
CallDelaunay ==
    /\ phase = "idle" /\ calls < MaxCalls
    /\ \E seq \in Orderings(input) :
          /\ input' = seq
          /\ stack' = <<Frame(seq)>>
    /\ phase' = "delaunay"
    /\ calls' = calls + 1
    /\ prev' = result
    /\ result' = <<>>
    /\ err' = ""
    /\ dresult' = <<>>
    /\ faces' = <<>>
    /\ UNCHANGED <<S_cache, genpos, dstack, RingVars, QueryVars>>

\* a caller builds emptyConnections(points) and edits it
RingsNew ==
    /\ phase = "idle" /\ calls = 0
    /\ Len(input) <= MaxRingPts
    /\ rings' = emptyConnections(input)
    /\ phase' = "rings"
    /\ UNCHANGED <<S_cache, DelaunayVars, err, DualVars, ops, QueryVars>>

RingsConnect ==
    /\ phase = "rings" /\ ops < MaxOps
    /\ \E p, q \in Range(input) : rings' = connect(p, q, rings)
    /\ ops' = ops + 1
    /\ UNCHANGED <<S_cache, DelaunayVars, err, DualVars, phase, QueryVars>>

RingsDisconnect ==
    /\ phase = "rings" /\ ops < MaxOps
    /\ \E p, q \in Range(input) : rings' = disconnect(p, q, rings)
    /\ ops' = ops + 1
    /\ UNCHANGED <<S_cache, DelaunayVars, err, DualVars, phase, QueryVars>>

\* ------------------------------------------------------------ direct calls
\* a call of inCircle, nextConnection (with a Point) or
\* nextConnectionFromAngle (nextConnection with a number)
Query(fn, p, abc, angle, ring, direction) ==
    [fn |-> fn, p |-> p, abc |-> abc, angle |-> angle, ring |-> ring, direction |-> direction]

NoQuery == Query("none", NullPt, <<>>, AngleZero, NoRing, 0)

\* inCircle(p, [a, b, c])
CallInCircle ==
    /\ phase = "query" /\ query.fn = "inCircle" /\ answer = <<>>
    /\ answer' = <<inCircle(query.p, query.abc)>>
    /\ S_cache' = Touch(FALSE, query.p \notin Range(query.abc))
    /\ UNCHANGED <<DelaunayVars, err, phase, DualVars, RingVars, query>>

\* nextConnection(p, ring, { direction }) with a Point p
CallNextConnection ==
    /\ phase = "query" /\ query.fn = "nextConnection" /\ answer = <<>>
    /\ answer' = <<nextConnection(query.p, query.ring, query.direction)>>
    /\ UNCHANGED <<S_cache, DelaunayVars, err, phase, DualVars, RingVars, query>>

\* nextConnection(angle, ring, { direction }) with a number
CallNextConnectionFromAngle ==
    /\ phase = "query" /\ query.fn = "nextConnectionFromAngle" /\ answer = <<>>
    /\ answer' = <<nextConnectionFromAngle(query.angle, query.ring, query.direction)>>
    /\ UNCHANGED <<S_cache, DelaunayVars, err, phase, DualVars, RingVars, query>>

\* ------------------------------------------------------------ specification
\* The inputs: the two scenarios; every set of at most MaxPts grid points in
\* general position; and, for more points (up to MaxRow), the sets in general
\* position with one point in each of the columns 0, 1, ..., n - 1.  A set is
\* listed left to right and grown a point at a time.
Compatible(s, p) ==
    /\ \A i, j \in DOMAIN s : i < j => Orient(s[i], s[j], p) # 0
    /\ \A i, j, k \in DOMAIN s : (i < j /\ j < k) => Lifted(s[i], s[j], s[k], p) # 0

Grown(t) == Compatible(SubSeq(t, 1, Len(t) - 1), t[Len(t)])

RECURSIVE Scattered(_)
Scattered(n) ==
    IF n = 0 THEN {<<>>}
    ELSE {t \in {Append(s, Pt(x, y)) : s \in Scattered(n - 1), x \in 0..MaxX, y \in 0..MaxY} :
             (n = 1 \/ t[n - 1].x < t[n].x) /\ Grown(t)}

RECURSIVE Rows(_)
Rows(n) ==
    IF n = 0 THEN {<<>>}
    ELSE {t \in {Append(s, Pt(n - 1, y)) : s \in Rows(n - 1), y \in 0..MaxY} : Grown(t)}

Inputs ==
    {ScenarioTriangle, ScenarioSquare}
    \cup UNION {Scattered(n) : n \in 0..MaxPts}
    \cup UNION {Rows(n) : n \in (MaxPts + 1)..MaxRow}

Init ==
    /\ S_cache = NoCache
    /\ input \in Inputs
    /\ genpos = GeneralPosition(input)
    /\ phase = "idle"
    /\ calls = 0
    /\ stack = <<>>
    /\ result = <<>>
    /\ prev = <<>>
    /\ err = ""
    /\ dstack = <<>>
    /\ faces = <<>>
    /\ dresult = <<>>
    /\ rings = <<>>
    /\ ops = 0
    /\ query = NoQuery
    /\ answer = <<>>

Next ==
    \/ CallDelaunay
    \/ Entry
    \/ Base2
    \/ Base3a
    \/ Base3b
    \/ Base3c
    \/ Split
    \/ LeftDone
    \/ RightDone
    \/ Tangent
    \/ BaseEdge
    \/ MergeTop
    \/ LeftWhile
    \/ RightInit
    \/ RightWhile
    \/ Choose
    \/ CallDual
    \/ DualEntry
    \/ DualLoop
    \/ DualConnect
    \/ RingsNew
    \/ RingsConnect
    \/ RingsDisconnect

Spec == Init /\ [][Next]_vars

\* a call that has started keeps running: nothing suspends it
FairSpec == Spec /\ WF_vars(Next)

\* The arguments of the direct calls: points of the grid 0..MaxCoord squared;
\* rings about RingCenter that addConnection has built from up to MaxLinks
\* distinct points, added in every order.
GridPts == {Pt(x, y) : x, y \in 0..MaxCoord}

RingCenter == Pt(1, 1)

RECURSIVE RingFrom(_, _)
RingFrom(center, pts) ==
    IF pts = <<>> THEN [center |-> center, links |-> <<>>]
    ELSE addConnection(pts[Len(pts)], RingFrom(center, SubSeq(pts, 1, Len(pts) - 1)))

RECURSIVE Distinct(_)
Distinct(n) ==
    IF n = 0 THEN {<<>>}
    ELSE {t \in {Append(s, p) : s \in Distinct(n - 1), p \in GridPts \ {RingCenter}} :
             \A i \in 1..(n - 1) : t[i] # t[n]}

GridRings == {RingFrom(RingCenter, s) : s \in UNION {Distinct(n) : n \in 0..MaxLinks}}

\* the calls drawn: query is one of them
Drawn(q) ==
    \/ \E p, a, b, c \in GridPts : q = Query("inCircle", p, <<a, b, c>>, AngleZero, NoRing, 0)
    \/ \E p \in GridPts \ {RingCenter}, ring \in GridRings, direction \in {-1, 1} :
           q = Query("nextConnection", p, <<>>, AngleZero, ring, direction)
    \/ \E angle \in {AngleZero, AngleNegPi}, ring \in GridRings, direction \in {-1, 1} :
           q = Query("nextConnectionFromAngle", NullPt, <<>>, angle, ring, direction)

GeomInit ==
    /\ S_cache = NoCache
    /\ input = <<>>
    /\ genpos = TRUE
    /\ phase = "query"
    /\ calls = 0
    /\ stack = <<>>
    /\ result = <<>>
    /\ prev = <<>>
    /\ err = ""
    /\ dstack = <<>>
    /\ faces = <<>>
    /\ dresult = <<>>
    /\ rings = <<>>
    /\ ops = 0
    /\ Drawn(query)
    /\ answer = <<>>

GeomNext ==
    \/ CallInCircle
    \/ CallNextConnection
    \/ CallNextConnectionFromAngle

\* the functions of the module called directly, once each, on drawn arguments
GeomSpec == GeomInit /\ [][GeomNext]_vars

\* ------------------------------------------------------------ properties
Keys(connections) == {id(connections[i].center) : i \in DOMAIN connections}

Centers(connections) == {connections[i].center : i \in DOMAIN connections}

\* the points p's ring links to
LinksOf(connections, p) ==
    {Get(connections, id(p)).links[k].point : k \in DOMAIN Get(connections, id(p)).links}

Linked(connections, p, q) == q \in LinksOf(connections, p)

\* the undirected edges of a map
Edges(connections) ==
    UNION {{{connections[i].center, connections[i].links[k].point} :
               k \in DOMAIN connections[i].links} : i \in DOMAIN connections}

\* every link p -> q of the map has a link q -> p in the ring of q
Symmetric(connections) ==
    \A i \in DOMAIN connections : \A k \in DOMAIN connections[i].links :
        LET q == connections[i].links[k].point
        IN  Has(connections, id(q)) /\ Linked(connections, q, connections[i].center)

Returned == phase = "idle" /\ result # <<>>

\* (p, q, r) is a triangle of edges whose circumcircle is empty
EmptyTriangle(connections, pts, p, q, r) ==
    /\ r \notin {p, q}
    /\ Linked(connections, p, r) /\ Linked(connections, r, p)
    /\ Linked(connections, q, r) /\ Linked(connections, r, q)
    /\ \A s \in Range(pts) \ {p, q, r} : ~StrictlyInside(s, p, q, r)

\* C1: for a general-position input of at least 3 points, every edge (p, q)
\* of the returned map lies on a triangle (p, q, r) of edges of the map whose
\* circumcircle has no other input point strictly inside.
C1_DelaunayProperty ==
    (Returned /\ genpos /\ Len(input) >= 3) =>
        \A p \in Centers(result) : \A q \in LinksOf(result, p) :
            \E r \in Range(input) : EmptyTriangle(result, input, p, q, r)

\* a returned triangulation of at least 7 points in which some pair of
\* points is not joined
C1_Witness ==
    /\ Returned /\ genpos /\ Len(input) >= 7
    /\ \E p, q \in Range(input) : p # q /\ ~Linked(result, p, q)
    /\ Centers(result) = Range(input)

AllMaps ==
    {rings, result} \cup
    UNION {{stack[d].connections, stack[d].ret, stack[d].leftConnections} : d \in DOMAIN stack}

\* C2: in every state (after each connect or disconnect a caller makes on
\* emptyConnections, during a delaunay run and in its result) every link
\* p -> q has its link q -> p.
C2_Symmetry == \A connections \in AllMaps : Symmetric(connections)

\* a merge has dropped an edge of a base triangle of the left half
C2_Witness ==
    /\ phase = "delaunay" /\ stack # <<>>
    /\ top.pc = "choose" /\ Len(top.leftPts) = 3
    /\ \E p, q \in Range(top.leftPts) : p # q /\ ~Linked(top.connections, p, q)
    /\ top.left \in Range(top.leftPts) /\ Linked(top.connections, top.left, top.right)

\* C3: the map returned for n points in general position has 1 edge when
\* n = 2, 3 edges when n = 3 and at most 3n - 6 edges when n >= 3.
C3_EdgeCount ==
    (Returned /\ genpos) =>
        LET n == Len(input)
            e == Cardinality(Edges(result))
        IN  /\ n = 2 => e = 1
            /\ n = 3 => e = 3
            /\ n >= 3 => e <= 3 * n - 6

\* a returned triangulation of at least 5 points with exactly 3n - 6 edges
C3_Witness ==
    /\ Returned /\ genpos /\ Len(input) >= 5
    /\ Cardinality(Edges(result)) = 3 * Len(input) - 6

\* C4: a call on at least 2 points in general position completes and returns
\* a map (the tangent loop and the merge loop of every merge exit), and no
\* step reads a neighbour from a ring that is empty or missing.
C4_Completes ==
    /\ [](genpos => err # TypeError)
    /\ [](genpos /\ Len(input) >= 2 /\ phase = "delaunay" /\ calls = 1
            => <>(Returned /\ calls = 1))
    /\ [](genpos /\ Len(input) >= 2 /\ phase = "delaunay" /\ calls = 2
            => <>(Returned /\ calls = 2))

\* a call on at least 7 points, whose merges merge merged halves, has returned
C4_Witness ==
    /\ Returned /\ genpos /\ Len(input) >= 7 /\ err = ""
    /\ Centers(result) = Range(input)

\* C5: the insufficient-points error is raised exactly by a call with fewer
\* than 2 points, and no activation of a call with 2 or more points receives
\* fewer than 2 points.
C5_InsufficientPoints ==
    /\ err = NotEnoughPoints <=> (calls >= 1 /\ phase = "idle" /\ Len(input) < 2)
    /\ Len(input) >= 2 => \A d \in DOMAIN stack : Len(stack[d].pts) >= 2

\* a call with fewer than 2 points has failed
C5_Witness == err = NotEnoughPoints /\ Len(input) < 2 /\ result = <<>>

\* C6: two delaunay calls on the same points, listed in any two orders and
\* with or without a dual call in between, return the same edge set.
C6_OrderIndependent ==
    (Returned /\ genpos /\ prev # <<>>) => Edges(result) = Edges(prev)

\* the second of two calls on at least 4 points has returned
C6_Witness ==
    /\ Returned /\ genpos /\ prev # <<>> /\ calls = 2
    /\ Len(input) >= 4 /\ Cardinality(Edges(result)) >= 5

\* ------------------------------------------------------------ the dual
\* dual has returned a map for the triangulation in result
DualReturned == phase = "idle" /\ result # <<>> /\ dresult # <<>>

\* s strictly inside the triangle (p, q, r)
InTriangle(s, p, q, r) ==
    \/ Orient(p, q, s) > 0 /\ Orient(q, r, s) > 0 /\ Orient(r, p, s) > 0
    \/ Orient(p, q, s) < 0 /\ Orient(q, r, s) < 0 /\ Orient(r, p, s) < 0

\* the triangular faces of a triangulation of pts: three mutually linked
\* points whose triangle holds no other point, listed as pts lists them
Faces(connections, pts) ==
    {<<pts[i], pts[j], pts[k]>> : <<i, j, k>> \in
        {t \in (DOMAIN pts) \X (DOMAIN pts) \X (DOMAIN pts) :
            /\ t[1] < t[2] /\ t[2] < t[3]
            /\ Linked(connections, pts[t[1]], pts[t[2]])
            /\ Linked(connections, pts[t[2]], pts[t[3]])
            /\ Linked(connections, pts[t[3]], pts[t[1]])
            /\ \A m \in DOMAIN pts :
                   ~InTriangle(pts[m], pts[t[1]], pts[t[2]], pts[t[3]])}}

\* the circumcenter of the triangle T, a reduced fraction pair with w > 0
Circumcenter(T) ==
    LET p == T[1]  q == T[2]  r == T[3]
        d == 2 * Orient(p, q, r)
        ux == norm2(p) * (q.y - r.y) + norm2(q) * (r.y - p.y) + norm2(r) * (p.y - q.y)
        uy == norm2(p) * (r.x - q.x) + norm2(q) * (p.x - r.x) + norm2(r) * (q.x - p.x)
        g == Gcd(Gcd(Abs(ux), Abs(uy)), Abs(d))
    IN  [x |-> (Sgn(d) * ux) \div g, y |-> (Sgn(d) * uy) \div g, w |-> Abs(d) \div g]

\* two different faces with a common edge
ShareEdge(T1, T2) == T1 # T2 /\ Cardinality(Range(T1) \cap Range(T2)) = 2

\* the Delaunay edges that two faces of F share
SharedEdges(connections, F) ==
    {e \in Edges(connections) :
        \E T1, T2 \in F : T1 # T2 /\ e \subseteq Range(T1) /\ e \subseteq Range(T2)}

\* C7: for a general-position input of at least 3 points, the keys of the
\* map dual returns are exactly the circumcenters of the triangular faces of
\* the triangulation: none missing, none more (none for the outer region).
C7_DualVertices ==
    (DualReturned /\ genpos /\ Len(input) >= 3) =>
        Keys(dresult) = {id(Circumcenter(T)) : T \in Faces(result, input)}

\* C8: for a general-position input of at least 3 points, dual links the
\* vertices of two faces iff the faces share a Delaunay edge, and the map has
\* as many undirected edges as there are Delaunay edges shared by two faces.
C8_DualEdges ==
    (DualReturned /\ genpos /\ Len(input) >= 3) =>
        LET F == Faces(result, input)
        IN  /\ \A T1, T2 \in F :
                   Linked(dresult, Circumcenter(T1), Circumcenter(T2)) <=> ShareEdge(T1, T2)
            /\ Cardinality(Edges(dresult)) = Cardinality(SharedEdges(result, F))

\* C9: for the points (0,0), (1,0), (0,1) the map dual returns has one
\* vertex, the circumcenter (1/2, 1/2), and its ring has no links.
C9_SingleTriangle ==
    (DualReturned /\ Range(input) = Range(ScenarioTriangle)) =>
        /\ Len(dresult) = 1
        /\ dresult[1].center = [x |-> 1, y |-> 1, w |-> 2]
        /\ dresult[1].links = <<>>

\* the seed edge of dual: the first ring of the map and its first link
SeedEdge(connections) == <<connections[1].center, connections[1].links[1].point>>

\* (p, q) has a triangle on its right: the neighbour of q next after p is
\* the neighbour of p next before q
HasRight(connections, p, q) ==
    nextConnection(p, Get(connections, id(q)), 1) = nextConnection(q, Get(connections, id(p)), -1)

\* the seed edge has no right-triangle in either orientation
NoSeedTriangle(connections) ==
    LET e == SeedEdge(connections)
    IN  ~HasRight(connections, e[1], e[2]) /\ ~HasRight(connections, e[2], e[1])

\* C10: a dual call on a map whose seed edge has no right-triangle in either
\* orientation ends with the error and returns no map; the map delaunay
\* returns for two points is such a map.
C10_DualFails ==
    /\ [][(/\ phase = "idle" /\ result # <<>> /\ calls' = calls
           /\ NoSeedTriangle(result))
              => (err' = NoTriangle /\ dresult' = <<>> /\ phase' = "idle" /\ dstack' = <<>>)]_vars
    /\ []((Returned /\ Len(input) = 2) => NoSeedTriangle(result))

\* dual has failed on the single edge of two points
C10_Witness ==
    /\ err = NoTriangle /\ Len(input) = 2 /\ phase = "idle"
    /\ Cardinality(Edges(result)) = 1 /\ dresult = <<>>

\* ------------------------------------------------------------ the square
\* the four sides of the unit square
SquareSides ==
    {{Pt(0, 0), Pt(1, 0)}, {Pt(1, 0), Pt(1, 1)}, {Pt(1, 1), Pt(0, 1)}, {Pt(0, 1), Pt(0, 0)}}

SquareDiagonals == {{Pt(0, 0), Pt(1, 1)}, {Pt(1, 0), Pt(0, 1)}}

\* a delaunay call on the four points of the unit square is over
SquareDone == phase = "idle" /\ calls >= 1 /\ Range(input) = Range(ScenarioSquare)

\* C11: for the unit square, listed in any order, delaunay returns exactly
\* 5 undirected edges, the 4 sides and one diagonal (in every order the one
\* from (1,0) to (0,1)), and a second call with the points listed in another
\* order returns the same 5 edges.
C11_UnitSquare ==
    SquareDone =>
        /\ result # <<>>
        /\ SquareSides \subseteq Edges(result)
        /\ Edges(result) \cap SquareDiagonals = {{Pt(1, 0), Pt(0, 1)}}
        /\ Cardinality(Edges(result)) = 5
        /\ prev # <<>> => Edges(result) = Edges(prev)

\* the second call on the square has returned a map
C11_Witness == SquareDone /\ calls = 2 /\ result # <<>> /\ prev # <<>>

\* ------------------------------------------------------------ frame
\* C12: no step of a delaunay run, returning or throwing, changes the
\* sequence the caller passed in: after the call it holds the same points
\* in the same order as before.
C12_InputUnchanged == [][phase = "delaunay" => input' = input]_vars

\* a step of a dual call: its start from the idle state, or a step of _dual
DualStep == phase \in {"idle", "dual"} /\ calls' = calls /\ result # <<>>

\* C13: no step of a dual call, one that returns or one that fails, changes
\* the map it was given: the same keys in the same order, and in every ring
\* the same center and the same links in the same order.
C13_DualReadsOnly == [][DualStep => result' = result]_vars

\* dual has returned a map of at least 3 linked vertices for a triangulation
\* of at least 5 points
C13_Witness ==
    /\ DualReturned /\ Len(input) >= 5 /\ Len(dresult) >= 3
    /\ Cardinality(Edges(dresult)) >= 2
    /\ Centers(result) = Range(input)

\* ------------------------------------------------------------ the merge
\* p strictly below the line through a and b, a left of b
StrictlyBelow(p, a, b) == Orient(a, b, p) < 0

\* C14: in every merge on a general-position input, when the lower tangent
\* loop has exited, left is a point of the left half, right a point of the
\* right half, and no point of either half is strictly below the line
\* through left and right.
C14_LowerTangent ==
    (genpos /\ At("base")) =>
        /\ top.left \in Range(top.leftPts)
        /\ top.right \in Range(top.rightPts)
        /\ top.left.x < top.right.x
        /\ \A p \in Range(top.leftPts) \cup Range(top.rightPts) :
               ~StrictlyBelow(p, top.left, top.right)

\* a tangent loop has exited after moving both of its ends
C14_Witness ==
    /\ genpos /\ At("base")
    /\ top.left # top.leftPts[Len(top.leftPts)]
    /\ top.right # top.rightPts[1]
    /\ Len(top.leftPts) >= 3

\* no ring of the map holds two links to the same point
NoDoubleLink(connections) ==
    \A i \in DOMAIN connections :
        \A k, m \in DOMAIN connections[i].links :
            k # m => connections[i].links[k].point # connections[i].links[m].point

\* the maps of a delaunay run and the maps it has returned
RunMaps ==
    {result, prev} \cup
    UNION {{stack[d].connections, stack[d].ret, stack[d].leftConnections} : d \in DOMAIN stack}

\* this step is a connect of the merge: the one after the tangent loop or
\* the one that ends a merge iteration
MergeConnect ==
    /\ phase = "delaunay" /\ stack # <<>> /\ top.pc \in {"base", "choose"}
    /\ phase' = "delaunay" /\ Len(stack') = Len(stack)

\* C15: during a delaunay run on a general-position input, and in its
\* result, no ring holds two links to the same point; every connect of a
\* merge joins a point of the left half to a point of the right half, and
\* the two are not linked before it.
C15_NoDoubleLink ==
    /\ [](genpos => \A connections \in RunMaps : NoDoubleLink(connections))
    /\ [][(genpos /\ MergeConnect) =>
              LET f == top
                  g == stack'[Len(stack')]
              IN  /\ g.left \in Range(f.leftPts)
                  /\ g.right \in Range(f.rightPts)
                  /\ ~Linked(f.connections, g.left, g.right)
                  /\ ~Linked(f.connections, g.right, g.left)
                  /\ Linked(g.connections, g.left, g.right)]_vars

\* a merge iteration has just connected a candidate of the left half to
\* right, after an edge of the left half (a triangle) was dropped
C15_Witness ==
    /\ genpos /\ At("mergeTop")
    /\ top.left # top.leftPts[Len(top.leftPts)]
    /\ Linked(top.connections, top.left, top.right)
    /\ Len(top.leftPts) = 3
    /\ \E p, q \in Range(top.leftPts) : p # q /\ ~Linked(top.connections, p, q)

\* ------------------------------------------------------------ inCircle
\* inCircle has returned for three distinct points that are not collinear
InCircleAnswered ==
    /\ query.fn = "inCircle" /\ answer # <<>>
    /\ Orient(query.abc[1], query.abc[2], query.abc[3]) # 0

\* p strictly outside the circle through a, b, c (in any order)
StrictlyOutside(p, a, b, c) == Lifted(a, b, c, p) * Orient(a, b, c) < 0

\* C16 as stated: for three distinct non-collinear points a, b, c passed in
\* any order and every point p, inCircle(p, [a, b, c]) is true exactly if p
\* is strictly inside the circle through a, b, c (so false for p among them).
C16_InCircleAnyOrder ==
    InCircleAnswered =>
        (answer[1] <=> StrictlyInside(query.p, query.abc[1], query.abc[2], query.abc[3]))

\* C16 amended: for a, b, c passed in counter-clockwise order inCircle is
\* true exactly if p is strictly inside the circle through them; for a, b, c
\* passed in clockwise order, exactly if p is strictly outside it and none
\* of them; it is false when p is one of a, b, c, in either order.
C16_InCircleCcw ==
    InCircleAnswered =>
        LET p == query.p  a == query.abc[1]  b == query.abc[2]  c == query.abc[3]
        IN  /\ Orient(a, b, c) > 0 => (answer[1] <=> StrictlyInside(p, a, b, c))
            /\ Orient(a, b, c) < 0 => (answer[1] <=> StrictlyOutside(p, a, b, c))
            /\ p \in {a, b, c} => ~answer[1]

\* inCircle has returned true for a point strictly inside the circle of a
\* counter-clockwise triple
C16_Witness ==
    /\ InCircleAnswered /\ answer[1]
    /\ Orient(query.abc[1], query.abc[2], query.abc[3]) > 0
    /\ StrictlyInside(query.p, query.abc[1], query.abc[2], query.abc[3])
    /\ S_cache[4] # <<>>

\* ------------------------------------------------------------ nextConnection
\* nextConnection has returned for a ring that is not empty
NextAnswered ==
    /\ query.fn \in {"nextConnection", "nextConnectionFromAngle"} /\ answer # <<>>
    /\ query.ring.links # <<>>

\* the reference angle of the call
RefAngle ==
    IF query.fn = "nextConnection" THEN atan2(minus(query.p, query.ring.center))
    ELSE query.angle

\* the links of the ring with the reference angle, a greater, a smaller one
AtRef == {k \in DOMAIN query.ring.links : query.ring.links[k].angle = RefAngle}
AboveRef == {k \in DOMAIN query.ring.links : AngleGT(query.ring.links[k].angle, RefAngle)}
BelowRef == {k \in DOMAIN query.ring.links : AngleGT(RefAngle, query.ring.links[k].angle)}

\* the link of the ring to the reference point, if there is one
RefLink ==
    {k \in DOMAIN query.ring.links :
        query.fn = "nextConnection" /\ query.ring.links[k].point = query.p}

Least(K) == CHOOSE k \in K : \A m \in K : k <= m
Greatest(K) == CHOOSE k \in K : \A m \in K : k >= m

\* the link after / before the k-th, cyclically
Following(k) == query.ring.links[(k % Len(query.ring.links)) + 1].point
Preceding(k) ==
    query.ring.links[((k + Len(query.ring.links) - 2) % Len(query.ring.links)) + 1].point

\* the first link with a greater angle, else the first link; the last link
\* with a smaller angle, else the last link
FirstAbove ==
    IF AboveRef = {} THEN query.ring.links[1].point
    ELSE query.ring.links[Least(AboveRef)].point
LastBelow ==
    IF BelowRef = {} THEN query.ring.links[Len(query.ring.links)].point
    ELSE query.ring.links[Greatest(BelowRef)].point

\* every ring drawn is sorted ascending by angle
SortedRing ==
    \A k, m \in DOMAIN query.ring.links :
        k < m => ~AngleGT(query.ring.links[k].angle, query.ring.links[m].angle)

\* C17 as stated: in every non-empty ring sorted ascending by angle, with a
\* reference point that is linked in the ring, direction +1 returns the link
\* cyclically following the reference's link and direction -1 the link
\* cyclically preceding it; with a reference angle equal to no link's angle,
\* +1 returns the first link with a greater angle (else the first link) and
\* -1 the last link with a smaller angle (else the last link).
C17_NextLinkAsStated ==
    NextAnswered =>
        /\ SortedRing
        /\ \A k \in RefLink :
               answer[1] = IF query.direction > 0 THEN Following(k) ELSE Preceding(k)
        /\ AtRef = {} =>
               answer[1] = IF query.direction > 0 THEN FirstAbove ELSE LastBelow

\* C17 amended: in every non-empty ring sorted ascending by angle, direction
\* +1 returns the first link with an angle greater than the reference's
\* (else the first link) and direction -1 the last link with a smaller
\* angle (else the last link), whether or not a link has the reference's
\* angle; with a reference point linked in the ring whose link is the only
\* one with its angle, these are the links cyclically following and
\* preceding the reference's link.
C17_NextLink ==
    NextAnswered =>
        /\ SortedRing
        /\ answer[1] = IF query.direction > 0 THEN FirstAbove ELSE LastBelow
        /\ \A k \in RefLink :
               AtRef = {k} =>
                   answer[1] = IF query.direction > 0 THEN Following(k) ELSE Preceding(k)

\* direction -1 with a reference linked first in a ring of three links of
\* different angles: the answer wraps to the last link
C17_Witness ==
    /\ NextAnswered /\ query.direction = -1
    /\ Len(query.ring.links) = 3
    /\ RefLink = {1} /\ AtRef = {1}
    /\ answer[1] = query.ring.links[3].point
    /\ AngleGT(query.ring.links[3].angle, query.ring.links[2].angle)

====
